---- MODULE Spec2Model ----
(***************************************************************************)
(* Model of inf4.py, a Streamlit script.  Each browser session re-runs the *)
(* script top to bottom on every interaction: session-state defaults, the  *)
(* sidebar thumbnail loop over the fixed file /tmp/temp_image.png, and     *)
(* then the body of the selected menu entry ("Summarize" or "Question      *)
(* based Graph").  The session state is private to a session; the          *)
(* temporary file is shared by all sessions of the process.                *)
(*                                                                         *)
(* The sidebar loop is modelled step by step (open/truncate, finish the    *)
(* write, read back), because other sessions can run between these steps.  *)
(* The menu body touches only the session's own state and external         *)
(* services, and is one action; the calls it makes and the widgets it      *)
(* draws are recorded, in order, in `trace`.                               *)
(***************************************************************************)
EXTENDS Integers, Sequences, FiniteSets, TLC

VARIABLES
  csv_file_path,     \* st.session_state.csv_file_path, per session
  summary,           \* st.session_state.summary, per session
  generated_charts,  \* st.session_state.generated_charts, per session
  chart_names,       \* st.session_state.chart_names, per session
  pc,                \* position of each session's script run
  idx,               \* position of the sidebar loop, per session
  html,              \* the thumbnail last rendered by the sidebar loop, per session
  tmp,               \* contents of /tmp/temp_image.png and who wrote them
  trace,             \* calls and widgets of the step just taken, in order
  who                \* the session that took the step just taken

vars == <<csv_file_path, summary, generated_charts, chart_names,
          pc, idx, html, tmp, trace, who>>

-----------------------------------------------------------------------------
(* Bounds of the model *)

\* Most charts held by all sessions together
MaxCharts == 2

Sessions == {"s1", "s2"}
\* The session of the single-session specification
Solo == "s1"

PyNone == "py:None"
\* A summary that lida returns as a dict, not as text
DictD == "py:dict"
Summaries == {"S", DictD}
Images == {"imgA", "imgB"}
\* What upload_image_to_drive can return: file.get('webViewLink')
Links == {"u1", "u2", PyNone}
Queries == {"", "q1"}
\* HTTP statuses the spreadsheet service answers with
Statuses == {200, 201, 500}
\* Response bodies: a JSON object, the empty JSON object, not JSON at all
Bodies == {"record", "empty", "nonjson"}

\* lida.goals(summary, n=2, ...)
NGoals == 2
HTTP_OK == 200

-----------------------------------------------------------------------------
(* Python helpers *)

\* str(x)
PyStr(x) ==
  CASE x = PyNone -> "None"
    [] x = DictD -> "{'name': ...}"
    [] OTHER -> x

\* isinstance(x, dict)
IsDict(x) == x = DictD

\* isinstance(x, str)
IsStr(x) == x \notin {PyNone, DictD}

\* truth value of a value returned by response.json()
Truthy(body) == body = "record"

Ev(op, arg, code) == [op |-> op, arg |-> arg, code |-> code]

\* st.error / st.success / st.write / st.image ...: a widget drawn in the page
Ui(op, arg) == Ev(op, arg, 0)

\* base64.b64encode(bytes).decode() wrapped as a data URI (lines 152-153)
DataUri(bytes) == "data:image/png;base64," \o bytes

\* base64_to_image: the raster decodes to an image, or the decode raises
Rasters == {"b64:imgA", "b64:imgB", "garbage"}
CanDecode(raster) == raster \in {"b64:imgA", "b64:imgB"}
base64_to_image(raster) ==
  CASE raster = "b64:imgA" -> "imgA"
    [] raster = "b64:imgB" -> "imgB"
    [] OTHER -> PyNone

-----------------------------------------------------------------------------
(* The spreadsheet recorders.  `r` is what requests.post does: it raises   *)
(* (r.exc), or answers with a status and a body.                           *)

Responses ==
  {[exc |-> TRUE, status |-> 0, body |-> "none"]} \cup
  [exc : {FALSE}, status : Statuses, body : Bodies]

\* The status test of both recorders: response.status_code != 200
StatusFailed(status) == status # HTTP_OK

\* Result of a recorder call: the widgets it drew, whether it raised, and
\* the value it returned
Saved(events, raised, result) ==
  [events |-> events, raised |-> raised, result |-> result]

Record(table, failure, payload, r) ==
  IF r.exc
    THEN Saved(<<Ev("post", table, 0)>>, TRUE, "none")
    ELSE LET sent == <<Ev("post", table, r.status), Ev("payload", payload, r.status)>>
         IN  IF r.body = "nonjson"
               \* response.json() raises, inside the f-string or at the return
               THEN Saved(sent, TRUE, "none")
               ELSE IF StatusFailed(r.status)
                 THEN Saved(sent \o <<Ui("error", failure)>>, FALSE, r.body)
                 ELSE Saved(sent, FALSE, r.body)

save_to_airtable_summaries(s, r) ==
  Record("summaries", "Failed to save summary to Airtable",
         IF IsDict(s) THEN PyStr(s) ELSE s, r)

save_to_airtable_visualizations(image_url, r) ==
  Record("visualizations", "Failed to save visualization to Airtable",
         IF ~IsStr(image_url) THEN PyStr(image_url) ELSE image_url, r)

-----------------------------------------------------------------------------
(* What the outside world does during one run of a menu body: the widgets' *)
(* values and the outcome of every external call.  Outcomes of calls that  *)
(* a run cannot reach are pinned, so that each run is listed once.         *)

NoResp == [exc |-> TRUE, status |-> 0, body |-> "none"]
NoUpload == [upOk |-> FALSE, url |-> PyNone, vsave |-> NoResp]
NoVis == [visOk |-> FALSE, ncharts |-> 0, raster |-> "garbage"] @@ NoUpload
NoGoals == [goalsOk |-> FALSE, ngoals |-> 0] @@ NoVis
NoSum == [sumOk |-> FALSE, sum |-> "S", ssave |-> NoResp]

\* upload_image_to_drive raises, or returns a link and the link is recorded
UploadOutcomes ==
  {NoUpload} \cup
  {[upOk |-> TRUE, url |-> u, vsave |-> r] : u \in Links, r \in Responses}

\* lida.visualize raises, returns no chart, or one chart (n=1) with a raster
VisOutcomes ==
  {NoVis,
   [visOk |-> TRUE, ncharts |-> 0, raster |-> "garbage"] @@ NoUpload,
   [visOk |-> TRUE, ncharts |-> 1, raster |-> "garbage"] @@ NoUpload} \cup
  {[visOk |-> TRUE, ncharts |-> 1, raster |-> ra] @@ u :
     ra \in {c \in Rasters : CanDecode(c)}, u \in UploadOutcomes}

\* lida.goals raises, or returns up to NGoals goals
GoalOutcomes ==
  {NoGoals, [goalsOk |-> TRUE, ngoals |-> 0] @@ NoVis} \cup
  {[goalsOk |-> TRUE, ngoals |-> n] @@ v : n \in 1..NGoals, v \in VisOutcomes}

SummarizeInputs ==
  {[menu |-> "Summarize", file |-> FALSE, query |-> "", clicked |-> FALSE]
     @@ NoSum @@ NoGoals,
   [menu |-> "Summarize", file |-> TRUE, query |-> "", clicked |-> FALSE]
     @@ NoSum @@ NoGoals} \cup
  {[menu |-> "Summarize", file |-> TRUE, query |-> "", clicked |-> FALSE,
    sumOk |-> TRUE, sum |-> s, ssave |-> r] @@ g :
     s \in Summaries, r \in Responses, g \in GoalOutcomes}

QuestionInputs ==
  {[menu |-> "Question based Graph", file |-> FALSE, query |-> q, clicked |-> c]
     @@ NoSum @@ NoGoals : q \in Queries, c \in BOOLEAN} \cup
  {[menu |-> "Question based Graph", file |-> FALSE, query |-> q, clicked |-> TRUE,
    sumOk |-> TRUE, sum |-> s, ssave |-> NoResp, goalsOk |-> FALSE, ngoals |-> 0]
     @@ v : q \in Queries \ {""}, s \in Summaries, v \in VisOutcomes}

Inputs == SummarizeInputs \cup QuestionInputs

\* Inputs that differ only in the calls and widgets of the run, and not in
\* the session state it leaves, are one input where the run is not observed:
\* a run appends nothing (the summarizer raises) or every call succeeds
Unobserved(x) ==
  /\ x.ssave = NoResp
  /\ x.sum = "S"
  /\ x.sumOk =>
        /\ x.menu = "Summarize" => x.goalsOk /\ x.ngoals = NGoals
        /\ x.visOk /\ x.ncharts = 1 /\ CanDecode(x.raster)
        /\ x.upOk /\ x.url = "u1"
        /\ x.vsave = [exc |-> FALSE, status |-> HTTP_OK, body |-> "record"]

SummarizeUnobserved == {x \in SummarizeInputs : Unobserved(x)}

QuestionUnobserved == {x \in QuestionInputs : Unobserved(x)}

-----------------------------------------------------------------------------
(* The menu bodies.  `ss` is the session state of the session that runs;   *)
(* the result is the session state after the run, the trace of the run,    *)
(* and whether an exception left the script.                               *)

Out(ss, events, raised) == [state |-> ss, events |-> events, raised |-> raised]

Prepend(events, out) == Out(out.state, events \o out.events, out.raised)

\* An exception that no try block of the script catches
Raise(origin) == Ev("raise", origin, 0)

ErrVis == Ui("error", "Error saving visualization to Airtable")
OkVis == Ui("success", "Visualization saved to Airtable successfully!")

\* AppendChart with the label put in front of the list instead of at its end
AppendChartLabelFirst(ss, img, label) ==
  [ss EXCEPT !.generated_charts = Append(@, img),
             !.chart_names = <<label>> \o @]

\* lines 213-214 and 254-255
AppendChart(ss, img, label) ==
  [ss EXCEPT !.generated_charts = Append(@, img),
             !.chart_names = Append(@, label)]

\* lines 209-214 and 250-255: record the link, append on a truthy result
RecordAndAppend(ss, img, label, image_url, x) ==
  LET r == save_to_airtable_visualizations(image_url, x.vsave)
      called == <<Ev("save_visualization", image_url, 0)>> \o r.events
  IN  IF r.raised
        THEN Out(ss, called \o <<ErrVis>>, FALSE)
        ELSE IF Truthy(r.result)
          THEN Out(AppendChart(ss, img, label),
                   called \o <<OkVis, Ev("append", label, 0)>>, FALSE)
          ELSE Out(ss, called, FALSE)

\* SummarizeUpload recording the name of the uploaded file, not the link returned
SummarizeUploadFileName(ss, img, x) ==
  IF ~x.upOk
    THEN Out(ss, <<Ev("upload", img, 0), ErrVis>>, FALSE)
    ELSE Prepend(<<Ev("upload", img, 0), Ev("link", x.url, 0), Ui("image", img)>>,
                 RecordAndAppend(ss, img, "Summary Chart", "visualization.png", x))

\* lines 206-216: the try block of the Summarize body
SummarizeUpload(ss, img, x) ==
  IF ~x.upOk
    THEN Out(ss, <<Ev("upload", img, 0), ErrVis>>, FALSE)
    ELSE Prepend(<<Ev("upload", img, 0), Ev("link", x.url, 0), Ui("image", img)>>,
                 RecordAndAppend(ss, img, "Summary Chart", x.url, x))

\* lines 245-257: st.image, then the try block of the Question body
QuestionUpload(ss, img, user_query, x) ==
  IF ~x.upOk
    THEN Out(ss, <<Ui("image", img), Ev("upload", img, 0), ErrVis>>, FALSE)
    ELSE Prepend(<<Ui("image", img), Ev("upload", img, 0), Ev("link", x.url, 0)>>,
                 RecordAndAppend(ss, img, user_query, x.url, x))

\* lines 201-203 and 240-242: visualize, take charts[0].raster, decode it
Visualize(goal, x) ==
  LET call == <<Ev("visualize", goal, 0)>>
  IN  IF ~x.visOk THEN [events |-> call \o <<Raise("visualize")>>, raised |-> TRUE]
      ELSE IF x.ncharts = 0
        THEN [events |-> call \o <<Raise("charts[0]")>>, raised |-> TRUE]
      ELSE IF ~CanDecode(x.raster)
        THEN [events |-> call \o <<Ev("decode", x.raster, 0), Raise("decode")>>,
              raised |-> TRUE]
      ELSE [events |-> call \o <<Ev("decode", x.raster, 0)>>, raised |-> FALSE]

\* PersistSummary without its try block: an exception of the recorder leaves the run
PersistSummaryUncaught(s, x) ==
  LET r == save_to_airtable_summaries(s, x.ssave)
      called == <<Ev("save_summary", PyStr(s), 0)>> \o r.events
  IN  IF r.raised
        THEN [events |-> called \o <<Raise("save_summary")>>, raised |-> TRUE]
        ELSE IF Truthy(r.result)
          THEN [events |-> called \o
                  <<Ui("success", "Summary saved to Airtable successfully!")>>,
                raised |-> FALSE]
          ELSE [events |-> called, raised |-> FALSE]

\* lines 177-183: the try block around the summary recorder
PersistSummary(s, x) ==
  LET r == save_to_airtable_summaries(s, x.ssave)
      called == <<Ev("save_summary", PyStr(s), 0)>> \o r.events
  IN  IF r.raised
        THEN [events |-> called \o <<Ui("error", "Error saving summary to Airtable")>>,
              raised |-> FALSE]
        ELSE IF Truthy(r.result)
          THEN [events |-> called \o
                  <<Ui("success", "Summary saved to Airtable successfully!")>>,
                raised |-> FALSE]
          ELSE [events |-> called, raised |-> FALSE]

\* lines 185-188: lida.goals and the display of each goal
Goals(s, x) ==
  LET call == <<Ev("goals", PyStr(s), 0)>>
  IN  IF ~x.goalsOk THEN [events |-> call \o <<Raise("goals")>>, raised |-> TRUE]
      ELSE [events |-> call \o [i \in 1..x.ngoals |-> Ui("write_goal", "goal")],
            raised |-> FALSE]

\* lines 190-216: visualize the first goal, decode, upload, record, append
SummarizeChart(ss, s, x) ==
  IF x.ngoals = 0
    THEN Out(ss, <<Raise("goals[0]")>>, TRUE)
    ELSE LET v == Visualize("goal", x)
         IN  IF v.raised THEN Out(ss, v.events, TRUE)
             ELSE Prepend(v.events, SummarizeUpload(ss, base64_to_image(x.raster), x))

\* lines 173-216: summarize, persist the summary, goals, chart
SummarizeSteps(ss, x) ==
  LET call == <<Ev("summarize", ss.csv_file_path, 0)>>
  IN  IF ~x.sumOk THEN Out(ss, call \o <<Raise("summarize")>>, TRUE)
      ELSE
        LET shown == call \o <<Ev("summary", x.sum, 0), Ui("write", PyStr(x.sum))>>
            p == PersistSummary(x.sum, x)
            g == Goals(x.sum, x)
        IN  IF p.raised THEN Out(ss, shown \o p.events, TRUE)
            ELSE IF g.raised THEN Out(ss, shown \o p.events \o g.events, TRUE)
            ELSE Prepend(shown \o p.events \o g.events, SummarizeChart(ss, x.sum, x))

\* lines 164-216: the body of menu "Summarize"
SummarizeFlow(ss, x) ==
  LET page == <<Ui("header", "INFERA ONE"),
                Ui("subheader", "Summarization of your Data")>>
  IN  IF ~x.file
        THEN Out(ss, page, FALSE)
        ELSE Prepend(page \o <<Ui("file_uploader", "csv")>>,
                     SummarizeSteps([ss EXCEPT !.csv_file_path = "filename.csv"], x))

\* lines 220-223: the guards of the Question body
HasCsv(ss) == ss.csv_file_path # PyNone
\* Submitted without the test of the query's length
SubmittedAnyQuery(x) == x.clicked
Submitted(x) == x.clicked /\ Len(x.query) > 0

\* lines 224-257: summarize again, visualize the query, display, upload
QuestionSteps(ss, x) ==
  LET user_query == x.query
      call == <<Ui("info", "Your Query: " \o x.query),
                Ev("summarize", ss.csv_file_path, 0)>>
  IN  IF ~x.sumOk THEN Out(ss, call \o <<Raise("summarize")>>, TRUE)
      ELSE
        LET v == Visualize(user_query, x)
            got == call \o <<Ev("summary", x.sum, 0)>> \o v.events
        IN  IF v.raised THEN Out(ss, got, TRUE)
            ELSE Prepend(got, QuestionUpload(ss, base64_to_image(x.raster),
                                             user_query, x))

\* lines 218-259: the body of menu "Question based Graph"
QuestionFlow(ss, x) ==
  LET page == <<Ui("subheader", "Query your Data to Generate Graph")>>
  IN  IF ~HasCsv(ss)
        THEN Out(ss, page \o <<Ui("warning", "Please upload a CSV file first.")>>, FALSE)
        ELSE LET form == page \o <<Ui("text_area", x.query),
                                   Ev("button", "Generate Graph",
                                      IF x.clicked THEN 1 ELSE 0)>>
             IN  IF ~Submitted(x) THEN Out(ss, form, FALSE)
                 ELSE Prepend(form, QuestionSteps(ss, x))

\* line 164 / line 218: the menu selects the body
Body(ss, x) ==
  IF x.menu = "Summarize" THEN SummarizeFlow(ss, x) ELSE QuestionFlow(ss, x)

-----------------------------------------------------------------------------
(* The script runs *)

\* A half-written /tmp/temp_image.png
Torn == "torn"

NoHtml == [name |-> "", data |-> "", by |-> {}, i |-> 0]

\* The session state of session s (lines 126-137)
SessionState(s) ==
  [csv_file_path |-> csv_file_path[s], summary |-> summary[s],
   generated_charts |-> generated_charts[s], chart_names |-> chart_names[s]]

TotalCharts(charts) ==
  LET RECURSIVE Sum(_)
      Sum(S) == IF S = {} THEN 0
                ELSE LET s == CHOOSE e \in S : TRUE
                     IN  Len(charts[s]) + Sum(S \ {s})
  IN  Sum(Sessions)

Min(a, b) == IF a < b THEN a ELSE b

\* zip(chart_names, generated_charts) stops at the shorter list (line 145)
Thumbnails(s) == Min(Len(chart_names[s]), Len(generated_charts[s]))

\* What `trace` keeps of a step's events
Seen(observe, events) == IF observe THEN events ELSE <<>>

Init ==
  /\ csv_file_path = [s \in Sessions |-> PyNone]
  /\ summary = [s \in Sessions |-> PyNone]
  /\ generated_charts = [s \in Sessions |-> <<>>]
  /\ chart_names = [s \in Sessions |-> <<>>]
  /\ pc = [s \in Sessions |-> "idle"]
  /\ idx = [s \in Sessions |-> 0]
  /\ html = [s \in Sessions |-> NoHtml]
  /\ tmp = [data |-> "absent", by |-> {}]
  /\ trace = <<>>
  /\ who = "nobody"

\* An interaction re-runs the script: lines 126-144
Rerun(s, observe) ==
  /\ pc[s] = "idle"
  /\ pc' = [pc EXCEPT ![s] = IF generated_charts[s] # <<>> THEN "save" ELSE "body"]
  /\ idx' = [idx EXCEPT ![s] = 1]
  /\ html' = [html EXCEPT ![s] = NoHtml]
  /\ trace' = Seen(observe,
                   IF generated_charts[s] # <<>>
                     THEN <<Ui("subheader", "Generated Graphs")>> ELSE <<>>)
  /\ who' = s
  /\ UNCHANGED <<csv_file_path, summary, generated_charts, chart_names, tmp>>

\* img.save(temp_file_path) opens the file for writing: it is truncated (line 148)
SaveOpen(s, observe) ==
  /\ pc[s] = "save"
  /\ pc' = [pc EXCEPT ![s] = "saving"]
  /\ tmp' = [data |-> Torn, by |-> {s}]
  /\ trace' = <<>>
  /\ who' = s
  /\ UNCHANGED <<csv_file_path, summary, generated_charts, chart_names, idx, html>>

\* Written with the first chart of the session saved at every entry
WrittenFirstChart(s, img) ==
  IF tmp.by = {s}
    THEN {[data |-> generated_charts[s][1], by |-> {s}]}
    ELSE {[data |-> d, by |-> tmp.by \cup {s}] : d \in {generated_charts[s][1], Torn}}

\* What the file holds once session s has written img and closed it: img,
\* unless another session opened the file meanwhile; then the writes mix
Written(s, img) ==
  IF tmp.by = {s}
    THEN {[data |-> img, by |-> {s}]}
    ELSE {[data |-> d, by |-> tmp.by \cup {s}] : d \in {img, Torn}}

\* img.save(temp_file_path) writes the image and closes the file (line 148)
SaveDone(s, observe) ==
  /\ pc[s] = "saving"
  /\ pc' = [pc EXCEPT ![s] = "read"]
  /\ tmp' \in Written(s, generated_charts[s][idx[s]])
  /\ trace' = <<>>
  /\ who' = s
  /\ UNCHANGED <<csv_file_path, summary, generated_charts, chart_names, idx, html>>

\* The thumbnail of entry i of session s, made from what the file holds
Thumbnail(s, i) ==
  [name |-> chart_names[s][i], data |-> DataUri(tmp.data), by |-> tmp.by, i |-> i]

\* lines 151-162: read the file back, render the thumbnail, next entry
ReadBack(s, observe) ==
  /\ pc[s] = "read"
  /\ html' = [html EXCEPT ![s] = Thumbnail(s, idx[s])]
  /\ idx' = [idx EXCEPT ![s] = @ + 1]
  /\ pc' = [pc EXCEPT ![s] = IF idx[s] >= Thumbnails(s) THEN "body" ELSE "save"]
  /\ trace' = Seen(observe, <<Ui("markdown", chart_names[s][idx[s]])>>)
  /\ who' = s
  /\ UNCHANGED <<csv_file_path, summary, generated_charts, chart_names, tmp>>

\* lines 164-259: the body of the selected menu entry, with inputs x
RunBody(s, x, observe) ==
  /\ pc[s] = "body"
  /\ LET out == Body(SessionState(s), x)
     IN  /\ csv_file_path' = [csv_file_path EXCEPT ![s] = out.state.csv_file_path]
         /\ summary' = [summary EXCEPT ![s] = out.state.summary]
         /\ generated_charts' =
              [generated_charts EXCEPT ![s] = out.state.generated_charts]
         /\ chart_names' = [chart_names EXCEPT ![s] = out.state.chart_names]
         /\ trace' = Seen(observe, out.events)
  /\ TotalCharts(generated_charts') <= MaxCharts
  /\ pc' = [pc EXCEPT ![s] = "idle"]
  /\ who' = s
  /\ UNCHANGED <<idx, html, tmp>>

\* The inputs of a run of `menu`
InputsOf(menu, observe) ==
  IF menu = "Summarize"
    THEN IF observe THEN SummarizeInputs ELSE SummarizeUnobserved
    ELSE IF observe THEN QuestionInputs ELSE QuestionUnobserved

\* A run of the script with menu "Summarize" reaches the body
Summarize(s, observe) ==
  /\ pc[s] = "body"
  /\ \E x \in InputsOf("Summarize", observe) : RunBody(s, x, observe)

\* A run of the script with menu "Question based Graph" reaches the body
Question(s, observe) ==
  /\ pc[s] = "body"
  /\ \E x \in InputsOf("Question based Graph", observe) : RunBody(s, x, observe)

\* One session, every call and widget observed
Next ==
  \/ Rerun(Solo, TRUE)
  \/ SaveOpen(Solo, TRUE)
  \/ SaveDone(Solo, TRUE)
  \/ ReadBack(Solo, TRUE)
  \/ Summarize(Solo, TRUE)
  \/ Question(Solo, TRUE)

Spec == Init /\ [][Next]_vars

\* All sessions, interleaved; the shared file is what is observed
NextRace ==
  \E s \in Sessions :
    \/ Rerun(s, FALSE)
    \/ SaveOpen(s, FALSE)
    \/ SaveDone(s, FALSE)
    \/ ReadBack(s, FALSE)
    \/ Summarize(s, FALSE)
    \/ Question(s, FALSE)

SpecRace == Init /\ [][NextRace]_vars

-----------------------------------------------------------------------------
(* Reading the trace of the step just taken *)

Has(op) == \E i \in DOMAIN trace : trace[i].op = op

HasEv(op, arg) == \E i \in DOMAIN trace : trace[i].op = op /\ trace[i].arg = arg

Count(op) == Cardinality({i \in DOMAIN trace : trace[i].op = op})

\* Position of the first event `op`, 0 when there is none
First(op) ==
  IF Has(op) THEN CHOOSE i \in DOMAIN trace :
                    /\ trace[i].op = op
                    /\ \A j \in 1..(i - 1) : trace[j].op # op
  ELSE 0

Is2xx(code) == code \in 200..299

SummarizeRun == trace # <<>> /\ trace[1] = Ui("header", "INFERA ONE")

QuestionRun ==
  trace # <<>> /\ trace[1] = Ui("subheader", "Query your Data to Generate Graph")

\* The status the spreadsheet service answered to the post to `table`, 0 when
\* the post raised, -1 when there was no post
StatusOf(table) ==
  IF HasEv("post", table)
    THEN trace[CHOOSE i \in DOMAIN trace :
                 trace[i].op = "post" /\ trace[i].arg = table].code
    ELSE -1

\* The external calls of the run, in order
Calls ==
  LET ops == {"summarize", "save_summary", "goals", "visualize", "upload",
              "save_visualization", "append"}
      sel == SelectSeq(trace, LAMBDA e : e.op \in ops)
  IN  [i \in DOMAIN sel |-> sel[i].op]

Last(seq) == seq[Len(seq)]

SessionVars == <<csv_file_path, summary, generated_charts, chart_names>>

-----------------------------------------------------------------------------
(* Claims *)

\* C1: in every reachable state generated_charts and chart_names of a session
\* have the same length, and every step either leaves both lists alone or
\* appends one chart to the first and, with it, its label to the second: the
\* chart displayed by the run and the label the run appended.
C1_ChartsAndNamesAligned ==
  /\ [](\A s \in Sessions : Len(generated_charts[s]) = Len(chart_names[s]))
  /\ [][\A s \in Sessions :
          \/ /\ generated_charts'[s] = generated_charts[s]
             /\ chart_names'[s] = chart_names[s]
          \/ \E img \in Images, label \in {"Summary Chart"} \cup Queries :
               /\ generated_charts'[s] = Append(generated_charts[s], img)
               /\ chart_names'[s] = Append(chart_names[s], label)
               /\ who' = s
               /\ \E i \in DOMAIN trace' : trace'[i] = Ui("image", img)
               /\ \E i \in DOMAIN trace' : trace'[i] = Ev("append", label, 0)]_vars

\* Two charts with different images and different labels are held
C1_Witness ==
  /\ Len(generated_charts[Solo]) = 2
  /\ generated_charts[Solo][1] # generated_charts[Solo][2]
  /\ chart_names[Solo] = <<"Summary Chart", "q1">>
  /\ Has("append")

\* C2 (as claimed): a run appends a chart only when the upload returned a link
\* and the save of the link succeeded: the post did not raise, the status was
\* 2xx and the recorder did not raise.
C2_AppendOnlyAfterSavedLink ==
  Has("append") =>
    /\ Has("link")
    /\ Is2xx(StatusOf("visualizations"))
    /\ ~HasEv("error", "Error saving visualization to Airtable")

\* C3: a Question run calls the summarizer or the visualizer only when a CSV
\* was uploaded and the button was pressed with a non-empty query; without a
\* CSV it shows the warning and calls neither; and a run with an empty query
\* calls neither and leaves the session state as it was.
C3_QuestionGuards ==
  /\ [](QuestionRun =>
          /\ (Has("summarize") \/ Has("visualize")) =>
               /\ csv_file_path[who] # PyNone
               /\ HasEv("text_area", "q1")
               /\ Ev("button", "Generate Graph", 1) \in {trace[i] : i \in DOMAIN trace}
          /\ csv_file_path[who] = PyNone =>
               /\ Has("warning")
               /\ ~Has("summarize")
               /\ ~Has("visualize")
          /\ HasEv("text_area", "") => ~Has("summarize") /\ ~Has("visualize"))
  /\ [][(QuestionRun /\ HasEv("text_area", ""))' => UNCHANGED SessionVars]_vars

\* The button was pressed with an empty query, and nothing was called
C3_Witness ==
  /\ QuestionRun
  /\ HasEv("text_area", "")
  /\ Ev("button", "Generate Graph", 1) \in {trace[i] : i \in DOMAIN trace}
  /\ ~Has("summarize")
  /\ Calls = <<>>

\* The summary persist step of the run failed: the post raised, the status was
\* not 2xx, or the recorder raised
SummaryPersistFailed ==
  /\ SummarizeRun
  /\ Has("save_summary")
  /\ \/ ~Is2xx(StatusOf("summaries"))
     \/ HasEv("error", "Error saving summary to Airtable")

\* C4: when the summary persist step of a Summarize run fails, the goal
\* generator is still called after it; the visualizer is called if a goal came
\* back; and the chart is displayed if the upload returned a link.
C4_PersistFailureDoesNotBlock ==
  SummaryPersistFailed =>
    /\ First("goals") > First("save_summary")
    /\ Has("write_goal") => First("visualize") > First("goals")
    /\ Has("link") => Has("image")
    /\ ~HasEv("raise", "save_summary")

\* The spreadsheet service answered 500 to the summary and the chart is displayed
C4_Witness ==
  /\ SummarizeRun
  /\ StatusOf("summaries") = 500
  /\ Has("goals")
  /\ Has("visualize")
  /\ Has("image")

\* Every external call of a Summarize run succeeded
AllSucceeded ==
  /\ SummarizeRun
  /\ Has("summary")
  /\ Is2xx(StatusOf("summaries"))
  /\ HasEv("success", "Summary saved to Airtable successfully!")
  /\ Count("write_goal") = NGoals
  /\ Has("decode")
  /\ \E u \in {"u1", "u2"} : HasEv("link", u)
  /\ Is2xx(StatusOf("visualizations"))
  /\ HasEv("success", "Visualization saved to Airtable successfully!")

\* C5: in a Summarize run in which every external call succeeds, the calls are
\* summarize, save summary, goals, visualize, upload, save link, append, in
\* this order and each once; the link recorder is called with the link the
\* uploader returned; and the entry appended is (the chart, "Summary Chart").
C5_SummarizeOrder ==
  AllSucceeded =>
    /\ Calls = <<"summarize", "save_summary", "goals", "visualize", "upload",
                 "save_visualization", "append">>
    /\ First("save_visualization") > First("link")
    /\ trace[First("save_visualization")].arg = trace[First("link")].arg
    /\ trace[First("save_visualization") + 2].op = "payload"
    /\ trace[First("save_visualization") + 2].arg = trace[First("link")].arg
    /\ trace[First("append")].arg = "Summary Chart"
    /\ Last(chart_names[who]) = "Summary Chart"
    /\ Last(generated_charts[who]) = trace[First("image")].arg

\* Every call succeeded and the link returned was u2
C5_Witness == AllSucceeded /\ HasEv("link", "u2") /\ Has("append")

\* The recorder called for `table` raised: its caller reports the exception
RecorderRaised(table) ==
  IF table = "summaries"
    THEN HasEv("error", "Error saving summary to Airtable")
    ELSE HasEv("error", "Error saving visualization to Airtable") /\ Has("link")

RecorderError(table) ==
  IF table = "summaries"
    THEN HasEv("error", "Failed to save summary to Airtable")
    ELSE HasEv("error", "Failed to save visualization to Airtable")

\* C6 (as claimed): whatever status the spreadsheet service answers, a recorder
\* shows its error exactly when the status is not 2xx, and does not raise.
C6_FailedExactlyWhenNot2xx ==
  \A table \in {"summaries", "visualizations"} :
    StatusOf(table) > 0 =>
      /\ RecorderError(table) <=> ~Is2xx(StatusOf(table))
      /\ ~Is2xx(StatusOf(table)) => ~RecorderRaised(table)

\* C7 (as claimed): no exception of an external call leaves a run uncaught.
C7_NoUncaughtException == ~Has("raise")

\* C8: a thumbnail carries the name of its own entry.  Rendered while no
\* other session wrote the file, it carries the bytes of its own chart;
\* otherwise it carries what the sessions that wrote the file left there: a
\* chart of one of them, or a half-written file.
C8_SharedTemporaryFile ==
  \A s \in Sessions :
    html[s] # NoHtml =>
      /\ html[s].i \in 1..Len(chart_names[s])
      /\ html[s].name = chart_names[s][html[s].i]
      /\ html[s].by # {}
      /\ html[s].by = {s} => html[s].data = DataUri(generated_charts[s][html[s].i])
      /\ html[s].data \in
           {DataUri(Torn)} \cup
           UNION {{DataUri(generated_charts[t][k]) :
                     k \in 1..Len(generated_charts[t])} : t \in html[s].by}

\* A thumbnail of one session carries a chart that only the other session holds
C8_Witness ==
  \E s \in Sessions :
    /\ html[s] # NoHtml
    /\ html[s].data # DataUri(Torn)
    /\ \A k \in 1..Len(generated_charts[s]) :
         html[s].data # DataUri(generated_charts[s][k])
    /\ \E t \in Sessions \ {s} : \E k \in 1..Len(generated_charts[t]) :
         html[s].data = DataUri(generated_charts[t][k])

\* C9 (as claimed): in both bodies the chart is displayed before the upload is
\* attempted, so it is displayed in every run that attempts the upload.
C9_DisplayBeforeUpload ==
  Has("upload") => Has("image") /\ First("image") < First("upload")

\* C10 (as claimed): after a run in which the summarizer returned a summary,
\* st.session_state.summary of the session is that summary.
C10_SummaryStored ==
  \A i \in DOMAIN trace :
    trace[i].op = "summary" => summary[who] = trace[i].arg

====
